---- MODULE Spec2Model ----
(***************************************************************************)
(* Model of src/app.py (KnowYourFacts): the transcript pipeline            *)
(* run_pipeline with its single-flight lock, the file transcript cache,    *)
(* the in-memory negative cache, the rate limiter and the retry loop of    *)
(* fetch_with_retry.  Each Dash callback invocation is a thread.           *)
(*                                                                         *)
(* Two clocks are kept, as in the code: time.time() (wall, seconds) is     *)
(* read by the negative cache, time.monotonic() (mono) by the rate         *)
(* limiter.  The code never compares them, so they advance independently.  *)
(* The rate limiter's durations are written in tenths of a second         *)
(* (YOUTUBE_MIN_FETCH_INTERVAL = 45, base_delay = 20) and the monotonic    *)
(* clock is counted in units of 1.5 s, so that the 4.5 s minimum interval  *)
(* is 3 units.  time.monotonic() has no defined origin and the code reads  *)
(* it only in the difference now - LAST_YT_REQUEST_AT, so the model keeps  *)
(* that difference (yt_elapsed); it stops counting at the minimum          *)
(* interval, beyond which wait_for_youtube_slot computes the same wait.    *)
(***************************************************************************)
EXTENDS Integers, Sequences, FiniteSets, TLC

\* ------------------------------------------------------------------ bounds
NumThreads == 2
MaxCalls == 3
MaxWallTicks == 3

\* ------------------------------------------------------- program constants
YOUTUBE_MIN_FETCH_INTERVAL == 45
YOUTUBE_FAILURE_TTL == 900
YOUTUBE_TRANSCRIPT_MISS_TTL == 1800
max_tries == 3
base_delay == 20

Threads == 1..NumThreads
None == "None"

MSG_LOCKED == "Bitte warten - ein anderer Auftrag laeuft bereits."
MSG_INVALID_URL == "Keine gueltige YouTube-URL."
MSG_MISSING_KEY == "OPENAI_API_KEY fehlt."
MSG_NO_VIDEO_ID == "Konnte Video-ID nicht ermitteln."
MSG_DONE_CACHE == "Faktenpruefung abgeschlossen (aus Cache)."
MSG_DONE == "Faktenpruefung abgeschlossen."
MSG_RATE_LIMITED == "YouTube hat den Abruf stark gedrosselt. Bitte mindestens 15 Minuten warten und erneut versuchen."
MSG_TRANSIENT == "YouTube hat den Abruf gedrosselt. Bitte spaeter erneut versuchen oder anderes Video testen."
MSG_NO_CAPTIONS == "Fuer dieses Video sind keine Untertitel verfuegbar. Bitte anderes Video probieren."
MSG_EMPTY_CAPTIONS == "Keine Untertitel wurden von YouTube geliefert."

\* ------------------------------------------------------------------- URLs
\* A URL as urlparse sees it: scheme, netloc, the path's segments and the
\* query's v parameter ("" when the query has none).
Url(s, h, p, v) == [scheme |-> s, host |-> h, path |-> p, v |-> v]
EmptyUrl == Url("", "", <<>>, "")
VideoIds == {"ABCDEFGHIJK", "xyz123"}
URLS ==
    { EmptyUrl,
      Url("", "", <<"not-a-url">>, ""),
      Url("https", "www.youtube.com", <<"watch">>, "ABCDEFGHIJK"),
      Url("https", "youtu.be", <<"xyz123">>, ""),
      Url("https", "www.youtube.com", <<"watch">>, "abcde"),
      Url("ftp", "www.youtube.com", <<"watch">>, "ABCDEFGHIJK") }

IsYoutubeHost(h) == h \in {"www.youtube.com", "youtube.com", "m.youtube.com"}
IsShortHost(h) == h \in {"youtu.be"}
NonEmptySegs(p) == SelectSeq(p, LAMBDA seg : seg # "")

\* Mutant: the scheme is not tested.
is_valid_youtube_url_any_scheme(u) ==
    IF u = EmptyUrl THEN FALSE
    ELSE IF IsYoutubeHost(u.host) THEN
        IF Len(u.path) >= 1 /\ u.path[1] = "watch"
        THEN u.v # "" /\ Len(u.v) > 5
        ELSE IF Len(u.path) >= 2 /\ u.path[1] = "shorts" /\ Len(u.path[2]) >= 5
        THEN TRUE
        ELSE IF Len(u.path) >= 2 /\ u.path[1] = "live" /\ Len(u.path[2]) >= 5
        THEN TRUE
        ELSE FALSE
    ELSE IF IsShortHost(u.host) THEN
        Len(NonEmptySegs(u.path)) = 1 /\ Len(NonEmptySegs(u.path)[1]) >= 5
    ELSE FALSE

is_valid_youtube_url(u) ==
    IF u = EmptyUrl THEN FALSE
    ELSE IF u.scheme \notin {"http", "https"} THEN FALSE
    ELSE IF IsYoutubeHost(u.host) THEN
        IF Len(u.path) >= 1 /\ u.path[1] = "watch"
        THEN u.v # "" /\ Len(u.v) > 5
        ELSE IF Len(u.path) >= 2 /\ u.path[1] = "shorts" /\ Len(u.path[2]) >= 5
        THEN TRUE
        ELSE IF Len(u.path) >= 2 /\ u.path[1] = "live" /\ Len(u.path[2]) >= 5
        THEN TRUE
        ELSE FALSE
    ELSE IF IsShortHost(u.host) THEN
        Len(NonEmptySegs(u.path)) = 1 /\ Len(NonEmptySegs(u.path)[1]) >= 5
    ELSE FALSE

get_video_id(u) ==
    IF IsYoutubeHost(u.host) /\ Len(u.path) >= 1 /\ u.path[1] = "watch"
    THEN (IF u.v # "" THEN u.v ELSE None)
    ELSE IF IsShortHost(u.host)
    THEN (IF Len(NonEmptySegs(u.path)) >= 1 THEN NonEmptySegs(u.path)[1] ELSE None)
    ELSE IF IsYoutubeHost(u.host) /\ Len(u.path) >= 2 /\ u.path[1] = "shorts"
    THEN u.path[2]
    ELSE IF IsYoutubeHost(u.host) /\ Len(u.path) >= 2 /\ u.path[1] = "live"
    THEN u.path[2]
    ELSE None

\* Python truthiness of a str-or-None value.
Truthy(x) == x # None /\ x # ""

\* ------------------------------------------------------------------ state
VARIABLES
    FACTCHECK_LOCK,          \* TRUE while the threading.Lock is held
    OPENAI_KEY,              \* whether OPENAI_API_KEY is set (fixed at start)
    CACHE_DIR,               \* files of /tmp/yt_caps_cache: video id -> record
    FAILED_TRANSCRIPT_CACHE, \* dict: video id -> [expires, message]
    yt_elapsed,              \* time.monotonic() - LAST_YT_REQUEST_AT
    wall,                    \* time.time()
    wallTicks,               \* number of wall clock advances so far
    calls,                   \* number of run_pipeline invocations so far
    pc,                      \* per thread: position in run_pipeline
    url,                     \* per thread: the url argument
    video_id,                \* per thread: local video_id
    attempt,                 \* per thread: loop variable of fetch_with_retry
    outcome,                 \* per thread: how the current attempt ended
    ret,                     \* per thread: what fetch_with_retry returned/raised
    result,                  \* per thread: what run_pipeline returned/raised
    log                      \* per thread: what this invocation has done

vars == << FACTCHECK_LOCK, OPENAI_KEY, CACHE_DIR, FAILED_TRANSCRIPT_CACHE,
           yt_elapsed, wall, wallTicks, calls, pc, url, video_id,
           attempt, outcome, ret, result, log >>

shared == << CACHE_DIR, FAILED_TRANSCRIPT_CACHE >>
clocks == << yt_elapsed, wall, wallTicks >>
fetchLocals == << attempt, outcome, ret >>

\* ------------------------------------------------------- transcript cache
CaptionText == [v \in VideoIds |-> IF v = "ABCDEFGHIJK" THEN "Die Erde ist rund."
                                                       ELSE "Hallo Welt"]

\* Mutant: the file is never found.
get_cached_transcript_missing(files, vid) == << None, None >>

\* Returns <<text, lang>>; a missing file gives <<None, None>>.
get_cached_transcript(files, vid) ==
    IF vid \in DOMAIN files
    THEN << files[vid].text, files[vid].lang >>
    ELSE << None, None >>

set_cached_transcript(files, vid, text, lang) ==
    [x \in DOMAIN files \cup {vid} |->
        IF x = vid THEN [text |-> text, lang |-> lang] ELSE files[x]]

\* --------------------------------------------------------- negative cache
mark_transcript_failure(d, vid, message, ttl, now) ==
    [x \in DOMAIN d \cup {vid} |->
        IF x = vid THEN [expires |-> now + ttl, message |-> message] ELSE d[x]]

clear_transcript_failure(d, vid) ==
    [x \in DOMAIN d \ {vid} |-> d[x]]

\* Mutant: the expiry is not tested.
get_recent_transcript_failure_unexpiring(d, vid, now) ==
    IF vid \notin DOMAIN d
    THEN [val |-> None, cache |-> d]
    ELSE [val |-> d[vid].message, cache |-> d]

\* Mutant: an expired record is reported absent but left in the dict.
get_recent_transcript_failure_keeping(d, vid, now) ==
    IF vid \notin DOMAIN d
    THEN [val |-> None, cache |-> d]
    ELSE IF now > d[vid].expires
    THEN [val |-> None, cache |-> d]
    ELSE [val |-> d[vid].message, cache |-> d]

\* Mutant: a hit renews the record's expiry.
get_recent_transcript_failure_renewing(d, vid, now) ==
    IF vid \notin DOMAIN d
    THEN [val |-> None, cache |-> d]
    ELSE IF now > d[vid].expires
    THEN [val |-> None, cache |-> [x \in DOMAIN d \ {vid} |-> d[x]]]
    ELSE [val |-> d[vid].message,
          cache |-> [d EXCEPT ![vid].expires = now + YOUTUBE_FAILURE_TTL]]

\* Returns [val |-> message or None, cache |-> the dict after the lookup].
get_recent_transcript_failure(d, vid, now) ==
    IF vid \notin DOMAIN d
    THEN [val |-> None, cache |-> d]
    ELSE IF now > d[vid].expires
    THEN [val |-> None, cache |-> [x \in DOMAIN d \ {vid} |-> d[x]]]
    ELSE [val |-> d[vid].message, cache |-> d]

\* ----------------------------------------------------- results and logs
NoResult == [kind |-> "none", site |-> "", status |-> "", caption |-> "",
             warning |-> "", rows |-> "", exc |-> ""]
Return(site, status, caption, warning, rows) ==
    [kind |-> "return", site |-> site, status |-> status, caption |-> caption,
     warning |-> warning, rows |-> rows, exc |-> ""]
Raise(site, exc) ==
    [kind |-> "raise", site |-> site, status |-> "", caption |-> "",
     warning |-> "", rows |-> "", exc |-> exc]

NoRet == [kind |-> "none", val |-> <<>>, exc |-> ""]

\* What one invocation has done so far: counters of lock operations, of
\* rate-limiter waits, captions requests, backoff sleeps, request marks and
\* LLM calls, the classes of its attempts' outcomes, and the arguments of
\* its openai_facts call.
EmptyLog == [acquires |-> 0, releases |-> 0, waits |-> 0, requests |-> 0,
             sleeps |-> 0, marks |-> 0, llm |-> 0, seen |-> {},
             llm_args |-> << >>]
Logged(t, field) == [log EXCEPT ![t][field] = @ + 1]

\* ----------------------------------------------------------------- clocks
\* Durations of the rate limiter are computed in tenths of a second and
\* counted in mono units of 1.5 s, rounded down.
ToUnits(ds) == ds \div 15
Max(a, b) == IF a >= b THEN a ELSE b
Min(a, b) == IF a <= b THEN a ELSE b
Pow2(n) == IF n <= 0 THEN 1 ELSE IF n = 1 THEN 2 ELSE 4

\* yt_elapsed after d more units of monotonic time.
ElapsedCap == ToUnits(YOUTUBE_MIN_FETCH_INTERVAL)
Elapse(e, d) == Min(ElapsedCap, e + d)

\* ------------------------------------------------------------------- Init
\* The cache directory survives a cold start (src/app.py:34-36), so files
\* written by an earlier process may be there; everything else is fresh.
Init ==
    /\ FACTCHECK_LOCK = FALSE
    /\ OPENAI_KEY \in BOOLEAN
    /\ \E S \in SUBSET VideoIds :
          CACHE_DIR = [v \in S |-> [text |-> CaptionText[v], lang |-> None]]
    /\ FAILED_TRANSCRIPT_CACHE = << >>
    /\ yt_elapsed = 0
    /\ wall = 0
    /\ wallTicks = 0
    /\ calls = 0
    /\ pc = [t \in Threads |-> "idle"]
    /\ url = [t \in Threads |-> EmptyUrl]
    /\ video_id = [t \in Threads |-> None]
    /\ attempt = [t \in Threads |-> 0]
    /\ outcome = [t \in Threads |-> "none"]
    /\ ret = [t \in Threads |-> NoRet]
    /\ result = [t \in Threads |-> NoResult]
    /\ log = [t \in Threads |-> EmptyLog]

\* time.time() passes.  The code reads it only against the expiry times of
\* the failure records: to test one (get_recent_transcript_failure) and to
\* set one (mark_transcript_failure).  Time that passed earlier is the same
\* to the code as time passing right before the read, so the clock advances
\* when a thread is about to read it, and only while a record is pending
\* (with none, no read can tell the time).
PendingFailure ==
    \E v \in DOMAIN FAILED_TRANSCRIPT_CACHE :
        wall <= FAILED_TRANSCRIPT_CACHE[v].expires

ReadsWall(t) == pc[t] \in {"neg_lookup", "fetch_done"}

TickWall ==
    /\ wallTicks < MaxWallTicks
    /\ PendingFailure
    /\ \E t \in Threads : ReadsWall(t)
    /\ wall' = wall + (YOUTUBE_FAILURE_TTL \div 2)
    /\ wallTicks' = wallTicks + 1
    /\ UNCHANGED << FACTCHECK_LOCK, OPENAI_KEY, shared, yt_elapsed, calls, pc,
                    url, video_id, fetchLocals, result, log >>

\* time.monotonic() passes; it is read only by wait_for_youtube_slot.
ReadsMono(t) == pc[t] = "fetch_wait"

TickMono ==
    /\ yt_elapsed < ElapsedCap
    /\ \E t \in Threads : ReadsMono(t)
    /\ yt_elapsed' = Elapse(yt_elapsed, 1)
    /\ UNCHANGED << FACTCHECK_LOCK, OPENAI_KEY, shared, wall, wallTicks, calls,
                    pc, url, video_id, fetchLocals, result, log >>

\* ----------------------------------------------------------- run_pipeline
\* The callback is invoked; the invocation's locals start fresh.  The url
\* argument is first read after the lock is taken and is chosen there.
Call(t) ==
    /\ pc[t] \in {"idle", "done"}
    /\ calls < MaxCalls
    /\ calls' = calls + 1
    /\ url' = [url EXCEPT ![t] = EmptyUrl]
    /\ pc' = [pc EXCEPT ![t] = "start"]
    /\ video_id' = [video_id EXCEPT ![t] = None]
    /\ attempt' = [attempt EXCEPT ![t] = 0]
    /\ outcome' = [outcome EXCEPT ![t] = "none"]
    /\ ret' = [ret EXCEPT ![t] = NoRet]
    /\ result' = [result EXCEPT ![t] = NoResult]
    /\ log' = [log EXCEPT ![t] = EmptyLog]
    /\ UNCHANGED << FACTCHECK_LOCK, OPENAI_KEY, shared, clocks >>

\* Mutant: the acquire does not test the lock.
AcquireSucceedsAlways == TRUE

\* FACTCHECK_LOCK.acquire(blocking=False) succeeds iff the lock is free.
AcquireSucceeds == ~FACTCHECK_LOCK

AcquireLock(t) ==
    /\ pc[t] = "start"
    /\ AcquireSucceeds
    /\ FACTCHECK_LOCK' = TRUE
    /\ \E u \in URLS : url' = [url EXCEPT ![t] = u]
    /\ pc' = [pc EXCEPT ![t] = "validate"]
    /\ log' = Logged(t, "acquires")
    /\ UNCHANGED << OPENAI_KEY, shared, clocks, calls, video_id, fetchLocals,
                    result >>

\* Mutant: the acquire sits inside the try, so the LOCKED return runs the
\* finally and releases the lock of the job in progress.
ReturnLockedReleasing(t) ==
    /\ pc[t] = "start"
    /\ ~AcquireSucceeds
    /\ result' = [result EXCEPT ![t] = Return("locked", MSG_LOCKED, "", "", "")]
    /\ pc' = [pc EXCEPT ![t] = "done"]
    /\ FACTCHECK_LOCK' = FALSE
    /\ UNCHANGED << OPENAI_KEY, shared, clocks, calls, url,
                    video_id, fetchLocals, log >>

ReturnLocked(t) ==
    /\ pc[t] = "start"
    /\ ~AcquireSucceeds
    /\ result' = [result EXCEPT ![t] = Return("locked", MSG_LOCKED, "", "", "")]
    /\ pc' = [pc EXCEPT ![t] = "done"]
    /\ UNCHANGED << FACTCHECK_LOCK, OPENAI_KEY, shared, clocks, calls, url,
                    video_id, fetchLocals, log >>

\* Mutant: a return that leaves the function without running the finally.
ExitWithoutFinally(t, r) ==
    /\ result' = [result EXCEPT ![t] = r]
    /\ pc' = [pc EXCEPT ![t] = IF r.site = "neg_hit" THEN "done" ELSE "finally"]

\* A return or raise inside the try block: the value is set and control goes
\* to the finally clause.
Exit(t, r) ==
    /\ result' = [result EXCEPT ![t] = r]
    /\ pc' = [pc EXCEPT ![t] = "finally"]

ReturnInvalidUrl(t) ==
    /\ pc[t] = "validate"
    /\ url[t] = EmptyUrl \/ ~is_valid_youtube_url(url[t])
    /\ Exit(t, Return("invalid_url", MSG_INVALID_URL, "", "", ""))
    /\ UNCHANGED << FACTCHECK_LOCK, OPENAI_KEY, shared, clocks, calls, url,
                    video_id, fetchLocals, log >>

ReturnMissingKey(t) ==
    /\ pc[t] = "validate"
    /\ ~(url[t] = EmptyUrl \/ ~is_valid_youtube_url(url[t]))
    /\ ~OPENAI_KEY
    /\ Exit(t, Return("missing_key", MSG_MISSING_KEY, "", "", ""))
    /\ UNCHANGED << FACTCHECK_LOCK, OPENAI_KEY, shared, clocks, calls, url,
                    video_id, fetchLocals, log >>

\* video_id = get_video_id(url); a url without an id returns at once.  The
\* url is not read again and is dropped from the state here.
ExtractVideoId(t) ==
    /\ pc[t] = "validate"
    /\ ~(url[t] = EmptyUrl \/ ~is_valid_youtube_url(url[t]))
    /\ OPENAI_KEY
    /\ LET vid == get_video_id(url[t]) IN
         IF ~Truthy(vid)
         THEN /\ Exit(t, Return("no_video_id", MSG_NO_VIDEO_ID, "", "", ""))
              /\ UNCHANGED video_id
         ELSE /\ video_id' = [video_id EXCEPT ![t] = vid]
              /\ pc' = [pc EXCEPT ![t] = "cache_lookup"]
              /\ UNCHANGED result
    /\ url' = [url EXCEPT ![t] = EmptyUrl]
    /\ UNCHANGED << FACTCHECK_LOCK, OPENAI_KEY, shared, clocks, calls,
                    fetchLocals, log >>

\* (2) cache lookup: a hit clears the failure record and goes to the LLM.
CacheHit(t) ==
    /\ pc[t] = "cache_lookup"
    /\ Truthy(get_cached_transcript(CACHE_DIR, video_id[t])[1])
    /\ FAILED_TRANSCRIPT_CACHE' =
          clear_transcript_failure(FAILED_TRANSCRIPT_CACHE, video_id[t])
    /\ pc' = [pc EXCEPT ![t] = "llm_cached"]
    /\ UNCHANGED << FACTCHECK_LOCK, OPENAI_KEY, CACHE_DIR, clocks, calls, url, video_id, fetchLocals, result, log >>

\* Mutant: the result of the cache lookup is not tested.
CacheMissAlways(t) ==
    /\ pc[t] = "cache_lookup"
    /\ pc' = [pc EXCEPT ![t] = "neg_lookup"]
    /\ UNCHANGED << FACTCHECK_LOCK, OPENAI_KEY, shared, clocks, calls, url,
                    video_id, fetchLocals, result, log >>

CacheMiss(t) ==
    /\ pc[t] = "cache_lookup"
    /\ ~Truthy(get_cached_transcript(CACHE_DIR, video_id[t])[1])
    /\ pc' = [pc EXCEPT ![t] = "neg_lookup"]
    /\ UNCHANGED << FACTCHECK_LOCK, OPENAI_KEY, shared, clocks, calls, url,
                    video_id, fetchLocals, result, log >>

\* openai_facts either returns the facts or raises (HTTP error, timeout).
LLMOutcomes == {"facts", "error"}
OrElse(x, dflt) == IF Truthy(x) THEN x ELSE dflt

\* openai_facts(cached_text, lang_hint=cached_lang or "de") on the cache path;
\* no except clause surrounds it, only the finally.
LLMCached(t) ==
    /\ pc[t] = "llm_cached"
    /\ LET c == get_cached_transcript(CACHE_DIR, video_id[t]) IN
       /\ log' = [log EXCEPT ![t].llm = @ + 1,
                             ![t].llm_args = << c[1], OrElse(c[2], "de") >>]
       /\ \E r \in LLMOutcomes :
            IF r = "facts"
            THEN Exit(t, Return("cache_hit", MSG_DONE_CACHE,
                                OrElse(c[2], "de/en"), "", "rows"))
            ELSE Exit(t, Raise("llm_cached", "RuntimeError"))
    /\ UNCHANGED << FACTCHECK_LOCK, OPENAI_KEY, shared, clocks, calls, url,
                    video_id, fetchLocals >>

\* recent_failure = get_recent_transcript_failure(video_id)
NegHit(t) ==
    /\ pc[t] = "neg_lookup"
    /\ LET r == get_recent_transcript_failure(FAILED_TRANSCRIPT_CACHE,
                                              video_id[t], wall) IN
       /\ Truthy(r.val)
       /\ FAILED_TRANSCRIPT_CACHE' = r.cache
       /\ Exit(t, Return("neg_hit", "", "", r.val, ""))
    /\ UNCHANGED << FACTCHECK_LOCK, OPENAI_KEY, CACHE_DIR, clocks, calls, url, video_id, fetchLocals, log >>

\* No recent failure: fetch_with_retry(video_id) is entered, attempt = 1.
NegMiss(t) ==
    /\ pc[t] = "neg_lookup"
    /\ LET r == get_recent_transcript_failure(FAILED_TRANSCRIPT_CACHE,
                                              video_id[t], wall) IN
       /\ ~Truthy(r.val)
       /\ FAILED_TRANSCRIPT_CACHE' = r.cache
    /\ attempt' = [attempt EXCEPT ![t] = 1]
    /\ pc' = [pc EXCEPT ![t] = "fetch_wait"]
    /\ UNCHANGED << FACTCHECK_LOCK, OPENAI_KEY, CACHE_DIR, clocks, calls, url, video_id, outcome, ret, result, log >>

\* ------------------------------------------------------- fetch_with_retry

\* jitter = uniform(jitter_base * 0.5, jitter_base * 1.1), jitter_base =
\* interval * (0.15 if attempt == 1 else 0.6).
JitterChoices(a) ==
    LET pct == IF a = 1 THEN 15 ELSE 60
        lo == (YOUTUBE_MIN_FETCH_INTERVAL * pct * 5) \div 1000
        hi == (YOUTUBE_MIN_FETCH_INTERVAL * pct * 11) \div 1000
    IN  { ToUnits(lo), ToUnits(hi) }

\* base_wait = max(0, LAST_YT_REQUEST_AT + YOUTUBE_MIN_FETCH_INTERVAL - now)
\* Mutant: the minimum interval is not waited for, only the jitter.
BaseWaitNone(elapsed) == 0

BaseWait(elapsed) ==
    Max(0, ToUnits(YOUTUBE_MIN_FETCH_INTERVAL) - elapsed)

WaitForSlot(t) ==
    /\ pc[t] = "fetch_wait"
    /\ \E jitter \in JitterChoices(attempt[t]) :
          yt_elapsed' = Elapse(yt_elapsed, BaseWait(yt_elapsed) + jitter)
    /\ log' = Logged(t, "waits")
    /\ pc' = [pc EXCEPT ![t] = "fetch_request"]
    /\ UNCHANGED << FACTCHECK_LOCK, OPENAI_KEY, shared, wall, wallTicks, calls,
                    url, video_id, fetchLocals, result >>

\* What one ytt.fetch can do: deliver chunks with text, deliver chunks whose
\* joined text is empty, or raise.
ServiceOutcomes == {"text", "empty", "NoTranscriptFound", "IpBlocked",
                    "YouTubeRequestFailed", "Exception"}

\* The except clause of fetch_with_retry that an outcome reaches.
Classify(o) ==
    CASE o = "text" -> "SUCCESS"
      [] o \in {"empty", "NoTranscriptFound", "TranscriptsDisabled"} -> "NO_TRANSCRIPT"
      [] o \in {"IpBlocked", "RequestBlocked"} -> "BLOCKED"
      [] OTHER -> "TRANSIENT_ERROR"

\* Mutant: the loop bound is off by one.
RetriesOffByOne(o, a) ==
    /\ Classify(o) \in {"BLOCKED", "TRANSIENT_ERROR"}
    /\ a <= max_tries

\* Mutant: an empty caption text is retried like a transient fault.
RetriesOnEmpty(o, a) ==
    /\ Classify(o) \in {"BLOCKED", "TRANSIENT_ERROR"} \/ o = "empty"
    /\ a < max_tries

\* The handler sleeps and continues: only for BLOCKED and TRANSIENT_ERROR,
\* and only while attempt < max_tries.
Retries(o, a) ==
    /\ Classify(o) \in {"BLOCKED", "TRANSIENT_ERROR"}
    /\ a < max_tries

FetchCaptionsOnce(t) ==
    /\ pc[t] = "fetch_request"
    /\ \E o \in ServiceOutcomes :
        /\ outcome' = [outcome EXCEPT ![t] = o]
        /\ log' = [log EXCEPT ![t].requests = @ + 1,
                              ![t].seen = @ \cup {Classify(o)}]
        /\ pc' = [pc EXCEPT ![t] = IF Retries(o, attempt[t])
                                   THEN "fetch_backoff" ELSE "fetch_finally"]
    /\ UNCHANGED << FACTCHECK_LOCK, OPENAI_KEY, shared, clocks, calls, url,
                    video_id, attempt, ret, result >>

\* min(base_delay * 2 ** (attempt - 1) * uniform(lo, hi), cap); lo and hi
\* are written in tenths.
BackoffChoices(o, a) ==
    LET c == Classify(o)
        lo == IF c = "BLOCKED" THEN 15 ELSE 9
        hi == IF c = "BLOCKED" THEN 23
              ELSE IF o = "YouTubeRequestFailed" THEN 13 ELSE 12
        cap == IF c = "BLOCKED" THEN 600
               ELSE IF o = "YouTubeRequestFailed" THEN 200 ELSE 60
    IN  { ToUnits(Min((base_delay * Pow2(a - 1) * lo) \div 10, cap)),
          ToUnits(Min((base_delay * Pow2(a - 1) * hi) \div 10, cap)) }

Backoff(t) ==
    /\ pc[t] = "fetch_backoff"
    /\ \E d \in BackoffChoices(outcome[t], attempt[t]) :
          yt_elapsed' = Elapse(yt_elapsed, d)
    /\ log' = Logged(t, "sleeps")
    /\ pc' = [pc EXCEPT ![t] = "fetch_finally"]
    /\ UNCHANGED << FACTCHECK_LOCK, OPENAI_KEY, shared, wall, wallTicks, calls,
                    url, video_id, fetchLocals, result >>

Returned(val) == [kind |-> "return", val |-> val, exc |-> ""]
Raised(exc) == [kind |-> "raise", val |-> << >>, exc |-> exc]

\* Mutant: exhausted BLOCKED attempts fall out of the loop like transient
\* ones instead of raising RateLimitError.
FetchEndNoRateLimit(o, vid) ==
    CASE o = "text" -> Returned(<< CaptionText[vid], None, None >>)
      [] o = "empty" -> Returned(<< None, None, MSG_EMPTY_CAPTIONS >>)
      [] Classify(o) = "NO_TRANSCRIPT" -> Returned(<< None, None, o >>)
      [] OTHER -> Raised("RuntimeError")

\* What fetch_with_retry hands to its caller once the loop is left.
FetchEnd(o, vid) ==
    CASE o = "text" -> Returned(<< CaptionText[vid], None, None >>)
      [] o = "empty" -> Returned(<< None, None, MSG_EMPTY_CAPTIONS >>)
      [] Classify(o) = "NO_TRANSCRIPT" -> Returned(<< None, None, o >>)
      [] Classify(o) = "BLOCKED" -> Raised("RateLimitError")
      [] OTHER -> Raised("RuntimeError")

\* Mutant: the request is marked after a successful attempt only, not in a
\* finally.
MarkOnlyOnSuccess(t) ==
    /\ pc[t] = "fetch_finally"
    /\ IF Classify(outcome[t]) = "SUCCESS"
       THEN yt_elapsed' = 0 /\ log' = Logged(t, "marks")
       ELSE UNCHANGED << yt_elapsed, log >>
    /\ IF Retries(outcome[t], attempt[t])
       THEN /\ attempt' = [attempt EXCEPT ![t] = @ + 1]
            /\ pc' = [pc EXCEPT ![t] = "fetch_wait"]
            /\ UNCHANGED ret
       ELSE /\ ret' = [ret EXCEPT ![t] = FetchEnd(outcome[t], video_id[t])]
            /\ pc' = [pc EXCEPT ![t] = "fetch_done"]
            /\ UNCHANGED attempt
    /\ UNCHANGED << FACTCHECK_LOCK, OPENAI_KEY, shared, wall, wallTicks,
                    calls, url, video_id, outcome, result >>

\* finally: mark_youtube_request(), then the loop continues or the function
\* returns or raises.
MarkYoutubeRequest(t) ==
    /\ pc[t] = "fetch_finally"
    /\ yt_elapsed' = 0
    /\ log' = Logged(t, "marks")
    /\ IF Retries(outcome[t], attempt[t])
       THEN /\ attempt' = [attempt EXCEPT ![t] = @ + 1]
            /\ pc' = [pc EXCEPT ![t] = "fetch_wait"]
            /\ UNCHANGED ret
       ELSE /\ ret' = [ret EXCEPT ![t] = FetchEnd(outcome[t], video_id[t])]
            /\ pc' = [pc EXCEPT ![t] = "fetch_done"]
            /\ UNCHANGED attempt
    /\ UNCHANGED << FACTCHECK_LOCK, OPENAI_KEY, shared, wall, wallTicks,
                    calls, url, video_id, outcome, result >>

\* --------------------------------------- run_pipeline after the fetch
\* Mutant: RateLimitError is an alias of RuntimeError, not a subclass.
IsInstanceAliased(exc, cls) ==
    \/ exc = cls
    \/ {exc, cls} = {"RateLimitError", "RuntimeError"}

\* Python's except clauses match subclasses: RateLimitError is a RuntimeError.
IsInstance(exc, cls) ==
    \/ exc = cls
    \/ exc = "RateLimitError" /\ cls = "RuntimeError"

\* Mutant: the transient failure is recorded with the full TTL.
TransientTtlFull == YOUTUBE_FAILURE_TTL

RateLimitTtl == YOUTUBE_FAILURE_TTL
TransientTtl == YOUTUBE_FAILURE_TTL \div 2

\* except RateLimitError as e: message = str(e)
HandleRateLimitError(t) ==
    /\ pc[t] = "fetch_done"
    /\ ret[t].kind = "raise"
    /\ IsInstance(ret[t].exc, "RateLimitError")
    /\ FAILED_TRANSCRIPT_CACHE' =
          mark_transcript_failure(FAILED_TRANSCRIPT_CACHE, video_id[t],
                                  MSG_RATE_LIMITED, RateLimitTtl, wall)
    /\ Exit(t, Return("rate_limited", "", "", MSG_RATE_LIMITED, ""))
    /\ UNCHANGED << FACTCHECK_LOCK, OPENAI_KEY, CACHE_DIR, clocks, calls, url, video_id, fetchLocals, log >>

\* except RuntimeError as e: reached only if the clause above did not match.
HandleRuntimeError(t) ==
    /\ pc[t] = "fetch_done"
    /\ ret[t].kind = "raise"
    /\ ~IsInstance(ret[t].exc, "RateLimitError")
    /\ IsInstance(ret[t].exc, "RuntimeError")
    /\ FAILED_TRANSCRIPT_CACHE' =
          mark_transcript_failure(FAILED_TRANSCRIPT_CACHE, video_id[t],
                                  MSG_TRANSIENT, TransientTtl, wall)
    /\ Exit(t, Return("transient", "", "", MSG_TRANSIENT, ""))
    /\ UNCHANGED << FACTCHECK_LOCK, OPENAI_KEY, CACHE_DIR, clocks, calls, url, video_id, fetchLocals, log >>

\* The number of targets of "text, lang = fetch_with_retry(video_id)".
UnpackTargets == 2

\* fetch_with_retry returned: the tuple is unpacked into (text, lang).  A
\* tuple of another length raises ValueError, which neither except clause
\* catches.  Otherwise an empty text reads the undefined name yt_message
\* (NameError); a text is cached, the failure record cleared and
\* openai_facts called.
UnpackResult(t) ==
    /\ pc[t] = "fetch_done"
    /\ ret[t].kind = "return"
    /\ LET val == ret[t].val IN
       IF Len(val) # UnpackTargets
       THEN /\ Exit(t, Raise("unpack", "ValueError"))
            /\ UNCHANGED << CACHE_DIR, FAILED_TRANSCRIPT_CACHE, log >>
       ELSE IF ~Truthy(val[1])
       THEN /\ Exit(t, Raise("no_text", "NameError"))
            /\ UNCHANGED << CACHE_DIR, FAILED_TRANSCRIPT_CACHE, log >>
       ELSE /\ CACHE_DIR' =
                 set_cached_transcript(CACHE_DIR, video_id[t], val[1], val[2])
            /\ FAILED_TRANSCRIPT_CACHE' =
                 clear_transcript_failure(FAILED_TRANSCRIPT_CACHE, video_id[t])
            /\ log' = [log EXCEPT ![t].llm = @ + 1,
                                  ![t].llm_args = << val[1], OrElse(val[2], "de") >>]
            /\ \E r \in LLMOutcomes :
                 IF r = "facts"
                 THEN Exit(t, Return("ok", MSG_DONE, OrElse(val[2], "de/en"),
                                     "", "rows"))
                 ELSE Exit(t, Raise("llm", "RuntimeError"))
    /\ UNCHANGED << FACTCHECK_LOCK, OPENAI_KEY, clocks, calls, url, video_id,
                    fetchLocals >>

\* finally: FACTCHECK_LOCK.release(); the result then reaches the caller.
\* The function's locals go out of scope, and of the invocation's log only
\* the lock operations are kept: what the job did is read off the state in
\* which its result is set and the lock still held (pc = "finally").
Finally(t) ==
    /\ pc[t] = "finally"
    /\ FACTCHECK_LOCK' = FALSE
    /\ log' = [log EXCEPT ![t] = [EmptyLog EXCEPT !.acquires = log[t].acquires,
                                                  !.releases = log[t].releases + 1]]
    /\ pc' = [pc EXCEPT ![t] = "done"]
    /\ url' = [url EXCEPT ![t] = EmptyUrl]
    /\ video_id' = [video_id EXCEPT ![t] = None]
    /\ attempt' = [attempt EXCEPT ![t] = 0]
    /\ outcome' = [outcome EXCEPT ![t] = "none"]
    /\ ret' = [ret EXCEPT ![t] = NoRet]
    /\ UNCHANGED << OPENAI_KEY, shared, clocks, calls, result >>

\* ------------------------------------------------------------------- Next
Next ==
    \/ TickWall
    \/ TickMono
    \/ \E t \in Threads :
        \/ Call(t)
        \/ AcquireLock(t)
        \/ ReturnLocked(t)
        \/ ReturnInvalidUrl(t)
        \/ ReturnMissingKey(t)
        \/ ExtractVideoId(t)
        \/ CacheHit(t)
        \/ CacheMiss(t)
        \/ LLMCached(t)
        \/ NegHit(t)
        \/ NegMiss(t)
        \/ WaitForSlot(t)
        \/ FetchCaptionsOnce(t)
        \/ Backoff(t)
        \/ MarkYoutubeRequest(t)
        \/ HandleRateLimitError(t)
        \/ HandleRuntimeError(t)
        \/ UnpackResult(t)
        \/ Finally(t)

Spec == Init /\ [][Next]_vars

TypeOK ==
    /\ FACTCHECK_LOCK \in BOOLEAN
    /\ OPENAI_KEY \in BOOLEAN
    /\ DOMAIN CACHE_DIR \subseteq VideoIds
    /\ DOMAIN FAILED_TRANSCRIPT_CACHE \subseteq VideoIds
    /\ yt_elapsed \in 0..ElapsedCap
    /\ wall \in Nat
    /\ \A t \in Threads : video_id[t] \in VideoIds \cup {None}

\* ----------------------------------------------------------- fairness
\* A thread inside run_pipeline keeps running: every collaborator call
\* returns or raises and every sleep ends.
JobStep(t) ==
    \/ ReturnInvalidUrl(t) \/ ReturnMissingKey(t) \/ ExtractVideoId(t)
    \/ CacheHit(t) \/ CacheMiss(t) \/ LLMCached(t) \/ NegHit(t) \/ NegMiss(t)
    \/ WaitForSlot(t) \/ FetchCaptionsOnce(t) \/ Backoff(t)
    \/ MarkYoutubeRequest(t) \/ HandleRateLimitError(t)
    \/ HandleRuntimeError(t) \/ UnpackResult(t) \/ Finally(t)

FairSpec == Spec /\ \A t \in Threads : WF_vars(JobStep(t))

\* ------------------------------------------------------------- claims
\* A thread is inside the job: between its successful acquire and its release.
InJob(t) == pc[t] \notin {"idle", "start", "done"}
Jobs == {t \in Threads : InJob(t)}
Locked(t) == pc[t] = "done" /\ result[t] = Return("locked", MSG_LOCKED, "", "", "")

\* C1: at most one invocation is between a successful acquire of
\* FACTCHECK_LOCK and its release, and the lock is held while one is; an
\* invocation that was answered LOCKED never acquired the lock and did
\* nothing else.
C1_SingleFlight ==
    /\ Cardinality(Jobs) <= 1
    /\ \A t \in Jobs : FACTCHECK_LOCK /\ log[t].acquires = 1
    /\ \A t \in Threads :
          pc[t] = "done" /\ log[t].acquires = 0 => Locked(t) /\ log[t] = EmptyLog

C1_Witness ==
    \E t1, t2 \in Threads :
        /\ t1 # t2
        /\ pc[t1] = "fetch_request"
        /\ Locked(t2)

\* The lock's bookkeeping: a job in progress has not released, a finished
\* invocation has released as often as it acquired, and the lock is free
\* whenever no job is in progress.
C2_ReleaseState ==
    /\ \A t \in Jobs : log[t].releases = 0
    /\ \A t \in Threads : pc[t] = "done" => log[t].releases = log[t].acquires
    /\ (Jobs = {}) => ~FACTCHECK_LOCK

\* C2: the lock bookkeeping above holds in every state, and every job in
\* progress ends with its lock released exactly once (under FairSpec: a
\* running job keeps running).
C2_ReleasesOnEveryPath ==
    /\ []C2_ReleaseState
    /\ \A t \in Threads : InJob(t) ~> (pc[t] = "done" /\ log[t].releases = 1)

C2_Witness ==
    \E t \in Threads :
        /\ pc[t] = "done"
        /\ result[t].kind = "raise"
        /\ log[t].acquires = 1 /\ log[t].releases = 1
        /\ ~FACTCHECK_LOCK
\* The job of thread t has its result and still holds the lock: what the
\* caller is about to get, with everything the job did still on record.
Ending(t) == pc[t] = "finally"
Exhausted(t) == log[t].requests = max_tries
FailureOf(t) == FAILED_TRANSCRIPT_CACHE[video_id[t]]
HasFailure(t) == video_id[t] \in DOMAIN FAILED_TRANSCRIPT_CACHE

\* C3: when the fetcher ends in SUCCESS, run_pipeline has written (text, lang)
\* to the transcript cache under the id, no failure record is left for the
\* id, the result is the OK tuple, and get_cached_transcript gives the text.
C3_SuccessIsCached ==
    \A t \in Threads :
        Ending(t) /\ outcome[t] = "text" =>
            /\ result[t].kind = "return"
            /\ result[t].status = MSG_DONE
            /\ ~HasFailure(t)
            /\ get_cached_transcript(CACHE_DIR, video_id[t])
                  = << CaptionText[video_id[t]], None >>

\* C4: every invocation ends by returning one result tuple; none ends with
\* an exception.
C4_AlwaysReturns ==
    \A t \in Threads :
        pc[t] \in {"finally", "done"} => result[t].kind = "return"

\* C5: when the fetcher ends in NO_TRANSCRIPT, run_pipeline has recorded a
\* failure for the id with the miss TTL, which is longer than the TTL of a
\* transient failure, and returns the no-captions message.
C5_NoTranscriptIsRecorded ==
    \A t \in Threads :
        Ending(t) /\ Classify(outcome[t]) = "NO_TRANSCRIPT" =>
            /\ HasFailure(t)
            /\ FailureOf(t) = [expires |-> wall + YOUTUBE_TRANSCRIPT_MISS_TTL,
                               message |-> MSG_NO_CAPTIONS]
            /\ YOUTUBE_TRANSCRIPT_MISS_TTL > YOUTUBE_FAILURE_TTL \div 2
            /\ result[t] = Return("no_captions", "", "", MSG_NO_CAPTIONS, "")

\* C6: one job performs at most max_tries requests to the captions service.
C6_RetryCap ==
    \A t \in Threads :
        /\ log[t].requests <= max_tries
        /\ attempt[t] <= max_tries
        /\ InJob(t) /\ attempt[t] > 0 =>
              log[t].requests \in {attempt[t] - 1, attempt[t]}

C6_Witness ==
    \E t \in Threads :
        /\ pc[t] = "fetch_done"
        /\ log[t].requests = max_tries
        /\ log[t].seen = {"BLOCKED", "TRANSIENT_ERROR"}

\* C7: an attempt classified NO_TRANSCRIPT is the job's last: the job is on
\* its way out of fetch_with_retry, and it has slept for backoff only after
\* the earlier attempts.
C7_NoTranscriptIsTerminal ==
    \A t \in Threads :
        outcome[t] # "none" /\ Classify(outcome[t]) = "NO_TRANSCRIPT" =>
            /\ pc[t] \in {"fetch_finally", "fetch_done", "finally"}
            /\ log[t].sleeps = log[t].requests - 1
            /\ log[t].waits = log[t].requests

C7_Witness ==
    \E t \in Threads :
        /\ pc[t] = "fetch_done"
        /\ outcome[t] = "empty"
        /\ log[t].requests = 2
        /\ log[t].sleeps = 1

\* C8: a job whose every attempt was BLOCKED has made max_tries attempts,
\* returns the RATE_LIMITED message and has recorded a failure for the id
\* that expires YOUTUBE_FAILURE_TTL (at least 15 minutes) after it was set.
C8_BlockedIsRateLimited ==
    \A t \in Threads :
        Ending(t) /\ log[t].seen = {"BLOCKED"} =>
            /\ Exhausted(t)
            /\ result[t] = Return("rate_limited", "", "", MSG_RATE_LIMITED, "")
            /\ HasFailure(t)
            /\ FailureOf(t) = [expires |-> wall + YOUTUBE_FAILURE_TTL,
                               message |-> MSG_RATE_LIMITED]
            /\ YOUTUBE_FAILURE_TTL >= 15 * 60

C8_Witness ==
    \E t \in Threads :
        /\ Ending(t)
        /\ log[t].seen = {"BLOCKED"}
        /\ FailureOf(t).expires = wall + 900

\* C9: a job whose last of max_tries attempts was a TRANSIENT_ERROR has
\* recorded a failure with half of YOUTUBE_FAILURE_TTL, which is shorter
\* than the TTLs of RATE_LIMITED and of NO_TRANSCRIPT, and returns the
\* transient-failure message.
C9_TransientIsRecordedShort ==
    \A t \in Threads :
        Ending(t) /\ Exhausted(t) /\ Classify(outcome[t]) = "TRANSIENT_ERROR" =>
            /\ result[t] = Return("transient", "", "", MSG_TRANSIENT, "")
            /\ HasFailure(t)
            /\ FailureOf(t).message = MSG_TRANSIENT
            /\ FailureOf(t).expires - wall = TransientTtl
            /\ FailureOf(t).expires - wall < YOUTUBE_FAILURE_TTL
            /\ FailureOf(t).expires - wall < YOUTUBE_TRANSCRIPT_MISS_TTL

C9_Witness ==
    \E t \in Threads :
        /\ Ending(t)
        /\ Exhausted(t)
        /\ outcome[t] = "YouTubeRequestFailed"
        /\ "BLOCKED" \in log[t].seen
        /\ FailureOf(t).expires = wall + 450

\* C10: a lookup that finds an unexpired failure record for the id (the
\* positive cache having missed) ends the job with the recorded message; the
\* job has waited for no slot, sent no request, called no LLM, and the
\* dict of failure records is as it was.
NegLookupStep(t) == pc[t] = "neg_lookup" /\ pc'[t] # "neg_lookup"
UnexpiredFailure(t) == HasFailure(t) /\ wall <= FailureOf(t).expires

C10_NegativeHit ==
    [][\A t \in Threads :
          NegLookupStep(t) /\ UnexpiredFailure(t) =>
              /\ pc'[t] = "finally"
              /\ result'[t] = Return("neg_hit", "", "", FailureOf(t).message, "")
              /\ FAILED_TRANSCRIPT_CACHE' = FAILED_TRANSCRIPT_CACHE
              /\ CACHE_DIR' = CACHE_DIR /\ yt_elapsed' = yt_elapsed
              /\ log'[t].waits = 0 /\ log'[t].requests = 0
              /\ log'[t].marks = 0 /\ log'[t].llm = 0]_vars

C10_Witness ==
    \E t \in Threads :
        /\ Ending(t)
        /\ result[t].site = "neg_hit"
        /\ result[t].warning = MSG_RATE_LIMITED
        /\ wall > 0
\* The id of thread t's job has a transcript with text in the cache.
Cached(v) == v \in DOMAIN CACHE_DIR /\ Truthy(CACHE_DIR[v].text)
KnowsId(t) == InJob(t) /\ video_id[t] # None

\* C11: a job for an id whose transcript is cached never waits for a slot
\* and never sends a captions request, and what it passes to openai_facts
\* is the cached text with the cached language (or "de" for none); and no
\* step removes or changes a cached record.
C11_CachedJob ==
    \A t \in Threads :
        KnowsId(t) /\ Cached(video_id[t]) =>
            /\ log[t].waits = 0 /\ log[t].requests = 0 /\ log[t].marks = 0
            /\ pc[t] \in {"cache_lookup", "llm_cached", "finally"}
            /\ log[t].llm > 0 =>
                  log[t].llm_args = << CACHE_DIR[video_id[t]].text,
                                       OrElse(CACHE_DIR[video_id[t]].lang, "de") >>

C11_CacheIsPermanent ==
    /\ []C11_CachedJob
    /\ [][\A v \in DOMAIN CACHE_DIR :
             Cached(v) => v \in DOMAIN CACHE_DIR' /\ CACHE_DIR'[v] = CACHE_DIR[v]]_vars

C11_Witness ==
    \E t \in Threads :
        /\ Ending(t)
        /\ result[t].site = "cache_hit"
        /\ log[t].llm_args = << "Die Erde ist rund.", "de" >>
        /\ calls = 3
        /\ wall > YOUTUBE_FAILURE_TTL

\* C12: a failure is recorded with expires = now + ttl; a lookup made before
\* the expiry returns the recorded message and leaves the dict as it is; a
\* lookup made after the expiry finds nothing, deletes that record and
\* leaves the others.
MarkStep(t) ==
    pc[t] = "fetch_done" /\ pc'[t] = "finally" /\ result'[t].kind = "return"
MarkedTtl(t) ==
    IF ret[t].exc = "RateLimitError" THEN YOUTUBE_FAILURE_TTL
                                     ELSE YOUTUBE_FAILURE_TTL \div 2

C12_FailureTtl ==
    [][\A t \in Threads :
        /\ MarkStep(t) =>
              /\ video_id[t] \in DOMAIN FAILED_TRANSCRIPT_CACHE'
              /\ FAILED_TRANSCRIPT_CACHE'[video_id[t]].expires = wall + MarkedTtl(t)
              /\ FAILED_TRANSCRIPT_CACHE'[video_id[t]].message = result'[t].warning
        /\ NegLookupStep(t) /\ HasFailure(t) /\ wall < FailureOf(t).expires =>
              /\ result'[t].warning = FailureOf(t).message
              /\ FAILED_TRANSCRIPT_CACHE' = FAILED_TRANSCRIPT_CACHE
        /\ NegLookupStep(t) /\ HasFailure(t) /\ wall > FailureOf(t).expires =>
              /\ pc'[t] = "fetch_wait"
              /\ result'[t] = NoResult
              /\ FAILED_TRANSCRIPT_CACHE' =
                    [v \in DOMAIN FAILED_TRANSCRIPT_CACHE \ {video_id[t]} |->
                        FAILED_TRANSCRIPT_CACHE[v]]]_vars

\* A first lookup after the expiry has deleted the only record.
C12_Witness ==
    \E t \in Threads :
        /\ pc[t] = "fetch_wait"
        /\ attempt[t] = 1 /\ log[t].waits = 0
        /\ wall > 0
        /\ FAILED_TRANSCRIPT_CACHE = << >>

\* C13: a job that has a transcript in hand, from the cache or from a
\* successful fetch, leaves no failure record for its id; and no id has both
\* a cached transcript and a failure record.
HasTranscript(t) ==
    \/ log[t].llm > 0
    \/ outcome[t] = "text" /\ pc[t] \in {"fetch_done", "finally"}

C13_SuccessHasNoFailure ==
    /\ \A t \in Threads : InJob(t) /\ HasTranscript(t) => ~HasFailure(t)
    /\ \A v \in VideoIds : Cached(v) => v \notin DOMAIN FAILED_TRANSCRIPT_CACHE

\* A fetch has succeeded after time has passed on a failure record.
C13_Witness ==
    \E t \in Threads :
        /\ Ending(t)
        /\ outcome[t] = "text"
        /\ wall > 0
        /\ ~HasFailure(t)
\* What a job has asked of its collaborators so far.
NoCollaborator(t) ==
    /\ log[t].waits = 0 /\ log[t].requests = 0 /\ log[t].sleeps = 0
    /\ log[t].marks = 0 /\ log[t].llm = 0
Rejected(u) == u = EmptyUrl \/ ~is_valid_youtube_url(u)
ValidateStep(t) == pc[t] = "validate" /\ pc'[t] # "validate"
InvalidEnding(t) == Ending(t) /\ result[t].site = "invalid_url"

\* C14: a job whose URL is empty or rejected by is_valid_youtube_url (as
\* every URL with a scheme other than http and https is) returns the
\* INVALID_URL tuple; from the validation to the return it has asked nothing
\* of the captions service, the clock or the LLM, and the transcript cache,
\* the failure dict and the time of the last request stay as they were.
C14_InvalidUrl ==
    [][\A t \in Threads :
        /\ ValidateStep(t)
             /\ (Rejected(url[t]) \/ url[t].scheme \notin {"http", "https"}) =>
              /\ result'[t] = Return("invalid_url", MSG_INVALID_URL, "", "", "")
              /\ pc'[t] = "finally"
              /\ NoCollaborator(t)
              /\ log'[t] = log[t]
              /\ shared' = shared /\ yt_elapsed' = yt_elapsed
        /\ InvalidEnding(t) =>
              /\ NoCollaborator(t)
              /\ shared' = shared /\ yt_elapsed' = yt_elapsed]_vars

\* The wrong-scheme URL has been turned down while a failure is on record.
C14_Witness ==
    \E t \in Threads :
        /\ InvalidEnding(t)
        /\ url[t].scheme = "ftp"
        /\ FAILED_TRANSCRIPT_CACHE # << >>

\* C15: an invocation that finds the lock held returns LOCKED in one step
\* that leaves the lock held, the transcript cache, the failure dict and the
\* time of the last request as they were, and the other invocations where
\* they were; it has acquired nothing, released nothing and asked nothing of
\* a collaborator.
LockedStep(t) == pc[t] = "start" /\ pc'[t] = "done"

C15_LockedIsInert ==
    [][\A t \in Threads :
        LockedStep(t) =>
            /\ result'[t] = Return("locked", MSG_LOCKED, "", "", "")
            /\ FACTCHECK_LOCK /\ FACTCHECK_LOCK'
            /\ shared' = shared
            /\ clocks' = clocks
            /\ log'[t] = EmptyLog
            /\ \A u \in Threads \ {t} :
                  pc'[u] = pc[u] /\ log'[u] = log[u] /\ result'[u] = result[u]]_vars

\* LOCKED has been returned while the other job is past its second attempt.
C15_Witness ==
    \E t, u \in Threads :
        /\ pc[t] = "done" /\ result[t].site = "locked"
        /\ pc[u] = "fetch_finally" /\ attempt[u] = 2

\* C16: counting the waits, requests and marks of a job: a request is made
\* only with the wait of its own attempt completed, and each attempt's
\* request is marked before the next wait begins and before fetch_with_retry
\* is left, by return or by exception.
C16_WaitRequestMark ==
    \A t \in Threads :
        LET w == log[t].waits
            r == log[t].requests
            m == log[t].marks
            a == attempt[t]
        IN  /\ pc[t] = "fetch_wait" => w = a - 1 /\ r = a - 1 /\ m = a - 1
            /\ pc[t] = "fetch_request" => w = a /\ r = a - 1 /\ m = a - 1
            /\ pc[t] \in {"fetch_backoff", "fetch_finally"} =>
                  w = a /\ r = a /\ m = a - 1
            /\ pc[t] = "fetch_done" => w = a /\ r = a /\ m = a
            /\ pc[t] \notin {"fetch_wait", "fetch_request", "fetch_backoff",
                             "fetch_finally"} => w = r /\ r = m

\* fetch_with_retry is left by exception with all three attempts marked.
C16_Witness ==
    \E t \in Threads :
        /\ pc[t] = "fetch_done"
        /\ ret[t].kind = "raise"
        /\ log[t].marks = max_tries
        /\ yt_elapsed = 0

\* C17: a captions request starts only when YOUTUBE_MIN_FETCH_INTERVAL has
\* passed since the last request was marked, whichever job made that one;
\* and while one request is between its wait and its mark no other job is
\* in any of these steps.
Requesting(t) == pc[t] \in {"fetch_request", "fetch_backoff", "fetch_finally"}

C17_MinInterval ==
    \A t \in Threads :
        /\ pc[t] = "fetch_request" =>
              yt_elapsed >= ToUnits(YOUTUBE_MIN_FETCH_INTERVAL)
        /\ Requesting(t) =>
              \A u \in Threads \ {t} : ~Requesting(u) /\ pc[u] # "fetch_wait"

\* The first request of a job that follows a job which made requests, with
\* a caller turned away meanwhile.
C17_Witness ==
    \E t \in Threads :
        /\ pc[t] = "fetch_request"
        /\ attempt[t] = 1
        /\ FAILED_TRANSCRIPT_CACHE # << >>
        /\ \E u \in Threads : pc[u] = "done" /\ result[u].site = "locked"
\* The steps whose code reads or writes the transcript cache, the failure
\* dict or LAST_YT_REQUEST_AT.
Accessing(t) ==
    pc[t] \in {"cache_lookup", "neg_lookup", "fetch_wait", "fetch_finally",
               "fetch_done"}
HoldsLock(t) ==
    /\ FACTCHECK_LOCK
    /\ log[t].acquires = 1 /\ log[t].releases = 0
    /\ \A u \in Threads \ {t} : ~InJob(u)

\* C18: an invocation that is about to read or write the transcript cache,
\* the failure dict or the time of the last request holds FACTCHECK_LOCK and
\* is the only one in a job; the cache and the failure dict change only in
\* a step of that invocation; and every record of the cache is whole.
C18_LockHeld == \A t \in Threads : Accessing(t) => HoldsLock(t)
C18_RecordsWhole ==
    \A v \in DOMAIN CACHE_DIR :
        CACHE_DIR[v] = [text |-> CaptionText[v], lang |-> None]

C18_AccessUnderLock ==
    /\ []C18_LockHeld
    /\ []C18_RecordsWhole
    /\ [][shared' # shared \/ yt_elapsed' < yt_elapsed =>
             \E t \in Threads :
                 Accessing(t) /\ HoldsLock(t) /\ pc'[t] # pc[t]]_vars

\* A failure is being recorded while another caller is at the lock.
C18_Witness ==
    \E t, u \in Threads :
        /\ pc[t] = "fetch_done" /\ ret[t].kind = "raise"
        /\ pc[u] = "start"
        /\ FAILED_TRANSCRIPT_CACHE # << >>

\* The place of each step in run_pipeline.
Rank(p) ==
    CASE p \in {"idle", "start"} -> 0
      [] p = "validate" -> 1
      [] p = "cache_lookup" -> 2
      [] p \in {"llm_cached", "neg_lookup"} -> 3
      [] p \in {"fetch_wait", "fetch_request", "fetch_backoff",
                "fetch_finally"} -> 4
      [] p = "fetch_done" -> 5
      [] p = "finally" -> 6
      [] p = "done" -> 7
Fetching(t) == Rank(pc[t]) \in {4, 5}

\* C19: a job's steps follow the order lock, validation, id, transcript
\* cache, failure dict, fetch, cache write, LLM: it holds the lock from its
\* first step; it knows its id only after the validation; it is past the
\* cache lookup only if the cache has no text for the id, unless it goes
\* straight to the LLM; it fetches only with no failure record for the id;
\* the LLM has been given a non-empty text that is in the cache; a job
\* whose id is cached goes to the LLM whatever the failure dict holds; and
\* no step goes back to an earlier place.
C19_StateOrder ==
    \A t \in Threads :
        /\ InJob(t) => log[t].acquires = 1 /\ FACTCHECK_LOCK
        /\ video_id[t] # None => Rank(pc[t]) \in 2..6
        /\ Rank(pc[t]) \in 2..5 => video_id[t] \in VideoIds
        /\ pc[t] = "neg_lookup" \/ Fetching(t) \/ log[t].requests > 0 =>
              ~Cached(video_id[t])
        /\ Fetching(t) => ~HasFailure(t) /\ log[t].llm = 0
        /\ pc[t] = "llm_cached" => Cached(video_id[t]) /\ NoCollaborator(t)
        /\ log[t].llm > 0 =>
              /\ Truthy(log[t].llm_args[1])
              /\ Cached(video_id[t])
              /\ log[t].llm_args[1] = CACHE_DIR[video_id[t]].text

C19_PipelineOrder ==
    /\ []C19_StateOrder
    /\ [][\A t \in Threads :
            /\ pc'[t] # pc[t] /\ pc[t] # "done" => Rank(pc'[t]) >= Rank(pc[t])
            /\ ValidateStep(t) /\ pc'[t] = "cache_lookup" =>
                  is_valid_youtube_url(url[t]) /\ OPENAI_KEY
            /\ pc[t] = "cache_lookup" /\ pc'[t] # pc[t] =>
                  pc'[t] = (IF Cached(video_id[t]) THEN "llm_cached"
                                                   ELSE "neg_lookup")
            /\ log'[t].requests > log[t].requests => pc[t] = "fetch_request"
            /\ log'[t].llm > log[t].llm =>
                  pc[t] \in {"llm_cached", "fetch_done"}]_vars

\* A request is about to be made after the cache had nothing and the failure
\* dict had only a record that has expired.
C19_Witness ==
    \E t \in Threads :
        /\ pc[t] = "fetch_request"
        /\ ~Cached(video_id[t])
        /\ FAILED_TRANSCRIPT_CACHE = << >>
        /\ wall > 0

\* C20: fetch_with_retry raises RateLimitError exactly when its max_tries-th
\* attempt was BLOCKED; a job whose last of max_tries attempts was BLOCKED
\* returns RATE_LIMITED with a record of YOUTUBE_FAILURE_TTL, and one whose
\* last was a TRANSIENT_ERROR returns the transient message with a record of
\* half of it, whatever the earlier attempts were.
LastClass(t) == IF outcome[t] = "none" THEN "none" ELSE Classify(outcome[t])

C20_LastAttemptDecides ==
    \A t \in Threads :
        /\ pc[t] = "fetch_done" =>
              (ret[t].exc = "RateLimitError"
                  <=> Exhausted(t) /\ LastClass(t) = "BLOCKED")
        /\ Ending(t) /\ Exhausted(t) /\ LastClass(t) = "BLOCKED" =>
              /\ result[t] = Return("rate_limited", "", "", MSG_RATE_LIMITED, "")
              /\ FailureOf(t) = [message |-> MSG_RATE_LIMITED,
                                 expires |-> wall + YOUTUBE_FAILURE_TTL]
        /\ Ending(t) /\ Exhausted(t) /\ LastClass(t) = "TRANSIENT_ERROR" =>
              /\ result[t] = Return("transient", "", "", MSG_TRANSIENT, "")
              /\ FailureOf(t) = [message |-> MSG_TRANSIENT,
                                 expires |-> wall + YOUTUBE_FAILURE_TTL \div 2]

\* Transient attempts first and a BLOCKED one last: RATE_LIMITED.
C20_Witness ==
    \E t \in Threads :
        /\ Ending(t)
        /\ Exhausted(t)
        /\ outcome[t] = "IpBlocked"
        /\ log[t].seen = {"BLOCKED", "TRANSIENT_ERROR"}
        /\ result[t].warning = MSG_RATE_LIMITED

====
